---------------------------- MODULE Spec2Model ----------------------------
(***************************************************************************)
(* A model of pdb_objects (src/pdb_objects/__init__.py): the record        *)
(* classes Residue, Atom, Helix, Sheet and Ter with their __str__ and      *)
(* comparison methods, the column parsers read_atom, read_helix,           *)
(* read_sheet and read_ter, the dispatcher read_record and the file        *)
(* reader read_pdb.                                                        *)
(*                                                                         *)
(* Text is modelled by TLA+ strings, sliced by column exactly as the       *)
(* Python slices do.  An optional value is None (the empty tuple) or       *)
(* Some(v) (a one-element tuple).  A float is modelled by the integer      *)
(* number of thousandths it stands for (1.25 is 1250).  The outcome of a   *)
(* call is Ok(v) or Raise(e), e the name of the Python exception.          *)
(***************************************************************************)
EXTENDS Integers, Sequences, FiniteSets, TLC

VARIABLES
    op,      \* the operation that ran last
    rec,     \* the record handed to str(), or the pair of Atoms compared
    line,    \* the outcome of str(rec), or the raw line handed to read_record
    back,    \* the outcome of read_record on line.val
    via,     \* the parser read_record called for that line
    file,    \* the lines of the file handed to read_pdb
    types,   \* the types argument of read_pdb
    loaded,  \* the outcome of read_pdb(file, types)
    cmp      \* the results of ==, < and > on the pair of Atoms in rec

vars == <<op, rec, line, back, via, file, types, loaded, cmp>>

---------------------------------------------------------------------------
(* Bounds of the model. *)

\* The longest file read_pdb is handed, in lines.
MaxFileLen == 2

\* Atom serial numbers compared by the ordering run over 0..MaxNum.
MaxNum == 2

\* Residue numbers compared by the ordering run over -1..MaxResid.
MaxResid == 1

---------------------------------------------------------------------------
(* Python values. *)

None == <<>>

Some(v) == <<v>>

Ok(v) == [tag |-> "ok", val |-> v]

Raise(e) == [tag |-> "raise", exc |-> e]

\* No call made yet.
Idle == [tag |-> "idle"]

IsOk(r) == r.tag = "ok"

IsRaise(r) == r.tag = "raise"

Min(a, b) == IF a < b THEN a ELSE b

Abs(n) == IF n < 0 THEN -n ELSE n

---------------------------------------------------------------------------
(* Python str operations. *)

CharAt(s, i) == SubSeq(s, i, i)

\* s[a:b], 0-based and half-open; a slice past the end is cut, not an error.
Slice(s, a, b) == IF a >= Min(b, Len(s)) THEN "" ELSE SubSeq(s, a + 1, Min(b, Len(s)))

IsSpace(c) == c \in {" ", "\n", "\t", "\r"}

RECURSIVE LStrip(_)
LStrip(s) == IF s # "" /\ IsSpace(CharAt(s, 1)) THEN LStrip(Slice(s, 1, Len(s))) ELSE s

RECURSIVE RStrip(_)
RStrip(s) == IF s # "" /\ IsSpace(CharAt(s, Len(s))) THEN RStrip(Slice(s, 0, Len(s) - 1)) ELSE s

\* str.strip()
Strip(s) == RStrip(LStrip(s))

LowerLetters == "abcdefghijklmnopqrstuvwxyz"

UpperLetters == "ABCDEFGHIJKLMNOPQRSTUVWXYZ"

LowerSet == {CharAt(LowerLetters, i) : i \in 1..Len(LowerLetters)}

UpperChar(c) ==
    IF c \in LowerSet
    THEN CharAt(UpperLetters, CHOOSE i \in 1..Len(LowerLetters) : CharAt(LowerLetters, i) = c)
    ELSE c

RECURSIVE Upper(_)
\* str.upper()
Upper(s) == IF s = "" THEN "" ELSE UpperChar(CharAt(s, 1)) \o Upper(Slice(s, 1, Len(s)))

\* str.startswith(p)
StartsWith(s, p) == Len(s) >= Len(p) /\ SubSeq(s, 1, Len(p)) = p

RECURSIVE Spaces(_)
Spaces(n) == IF n <= 0 THEN "" ELSE " " \o Spaces(n - 1)

\* '{:>w}'.format(s): right-justified, never cut.
PadLeft(s, w) == Spaces(w - Len(s)) \o s

\* '{:w}'.format(s) of a str: left-justified, never cut.
PadRight(s, w) == s \o Spaces(w - Len(s))

Digits == "0123456789"

IsDigit(c) == \E i \in 1..Len(Digits) : CharAt(Digits, i) = c

DigitVal(c) == (CHOOSE i \in 1..Len(Digits) : CharAt(Digits, i) = c) - 1

RECURSIVE NatToStr(_)
NatToStr(n) == IF n < 10 THEN CharAt(Digits, n + 1)
               ELSE NatToStr(n \div 10) \o CharAt(Digits, (n % 10) + 1)

\* str(n) of an int, as format() writes it.
IntToStr(n) == IF n < 0 THEN "-" \o NatToStr(-n) ELSE NatToStr(n)

RECURSIVE AllDigits(_)
AllDigits(s) == s = "" \/ (IsDigit(CharAt(s, 1)) /\ AllDigits(Slice(s, 1, Len(s))))

RECURSIVE DigitsVal(_)
DigitsVal(s) == IF s = "" THEN 0
                ELSE 10 * DigitsVal(Slice(s, 0, Len(s) - 1)) + DigitVal(CharAt(s, Len(s)))

HasSign(s) == s # "" /\ CharAt(s, 1) \in {"+", "-"}

Unsigned(s) == IF HasSign(s) THEN Slice(s, 1, Len(s)) ELSE s

SignOf(s) == IF s # "" /\ CharAt(s, 1) = "-" THEN -1 ELSE 1

\* int(s): surrounding whitespace is ignored, then an optional sign and at
\* least one decimal digit; anything else, the empty string included, is a
\* ValueError.
ParseInt(s) ==
    LET t == Strip(s)
        d == Unsigned(t)
    IN  IF d # "" /\ AllDigits(d) THEN Ok(SignOf(t) * DigitsVal(d)) ELSE Raise("ValueError")

\* The position of the first "." of s, or 0.
DotAt(s) == IF \E i \in 1..Len(s) : CharAt(s, i) = "."
            THEN CHOOSE i \in 1..Len(s) : CharAt(s, i) = "." /\ \A j \in 1..(i - 1) : CharAt(s, j) # "."
            ELSE 0

\* float(s), in thousandths: surrounding whitespace is ignored, then an
\* optional sign, digits, and optionally a point and digits, with a digit on
\* at least one side of the point.  (Exponents, inf and nan are further
\* forms of float(); no line of the model holds one.)
ParseFloat(s) ==
    LET t == Strip(s)
        d == Unsigned(t)
        k == DotAt(d)
        ip == IF k = 0 THEN d ELSE Slice(d, 0, k - 1)
        fp == IF k = 0 THEN "" ELSE Slice(d, k, Len(d))
        f3 == Slice(fp \o "000", 0, 3)
    IN  IF AllDigits(ip) /\ AllDigits(fp) /\ Len(ip) + Len(fp) > 0
        THEN Ok(SignOf(t) * (1000 * DigitsVal(ip) + DigitsVal(f3)))
        ELSE Raise("ValueError")

\* '{:w.3f}'.format(v), v in thousandths.
Format3f(v, w) ==
    LET a == Abs(v)
        frac == NatToStr(1000 + (a % 1000))
    IN  PadLeft((IF v < 0 THEN "-" ELSE "") \o NatToStr(a \div 1000) \o "." \o Slice(frac, 1, 4), w)

\* '{:w.2f}'.format(v), v in thousandths, rounded to hundredths.  (Every
\* value of the model is a whole number of hundredths, so the rounding
\* never decides a digit.)
Format2f(v, w) ==
    LET a == (Abs(v) + 5) \div 10
        frac == NatToStr(100 + (a % 100))
    IN  PadLeft((IF v < 0 /\ a > 0 THEN "-" ELSE "") \o NatToStr(a \div 100) \o "." \o Slice(frac, 1, 3), w)

\* Python truth of an optional int or float: None and 0 are false.
TruthyNum(o) == o # None /\ o[1] # 0

\* Python truth of an optional str: None and "" are false.
TruthyStr(o) == o # None /\ o[1] # ""

\* (o or ""), o an optional str.
StrOrEmpty(o) == IF TruthyStr(o) THEN o[1] ELSE ""

\* (o or " "), o an optional str.
StrOrBlank(o) == IF TruthyStr(o) THEN o[1] ELSE " "

\* '{:>w}'.format(o or ""), o an optional int: 0 is written as blanks.
IntOrEmpty(o, w) == PadLeft(IF TruthyNum(o) THEN IntToStr(o[1]) ELSE "", w)

\* (o or 0), o an optional float.
NumOrZero(o) == IF TruthyNum(o) THEN o[1] ELSE 0

---------------------------------------------------------------------------
(* The record classes and their __str__ methods. *)

\* Residue(name, chain, resid, insertion)
Residue(name, chain, resid, insertion) ==
    [name |-> name, chain |-> chain, resid |-> resid, insertion |-> insertion]

\* Residue(): every field None.
EmptyResidue == Residue(None, None, None, None)

\* Atom(record_type, num, name, alt_location, residue, coords, occupancy,
\*      temp_factor, segment, symbol, charge)
Atom(record_type, num, name, alt_location, residue, coords, occupancy, temp_factor, segment, symbol, charge) ==
    [class |-> "Atom", record_type |-> record_type, num |-> num, name |-> name,
     alt_location |-> alt_location, residue |-> residue, coords |-> coords,
     occupancy |-> occupancy, temp_factor |-> temp_factor, segment |-> segment,
     symbol |-> symbol, charge |-> charge]

\* Atom(name=..., residue=...): the other arguments at their defaults.
NamedAtom(name, residue) ==
    Atom("ATOM", None, name, None, residue, None, None, None, None, None, None)

\* Helix(helix_num, helix_id, initial, terminal, helix_type, comment, length)
Helix(helix_num, helix_id, initial, terminal, helix_type, comment, length) ==
    [class |-> "Helix", record_type |-> "HELIX", helix_num |-> helix_num,
     helix_id |-> helix_id, initial |-> initial, terminal |-> terminal,
     helix_type |-> helix_type, comment |-> comment, length |-> length]

\* Sheet(strand_num, sheet_id, num_strands, initial, terminal, sense, hbond)
Sheet(strand_num, sheet_id, num_strands, initial, terminal, sense, hbond) ==
    [class |-> "Sheet", record_type |-> "SHEET", strand_num |-> strand_num,
     sheet_id |-> sheet_id, num_strands |-> num_strands, initial |-> initial,
     terminal |-> terminal, sense |-> sense, hbond |-> hbond]

\* Ter(num, residue)
Ter(num, residue) ==
    [class |-> "Ter", record_type |-> "TER", num |-> num, residue |-> residue]

\* (residue or Residue()): a Residue object is always true.
ResidueOrEmpty(o) == IF o # None THEN o[1] ELSE EmptyResidue

\* Residue.__str__
Residue_str(r) ==
    PadLeft(StrOrEmpty(r.name), 3) \o " " \o StrOrBlank(r.chain)
        \o IntOrEmpty(r.resid, 4) \o StrOrBlank(r.insertion)

\* Residue.alt_str
Residue_alt_str(r) ==
    PadLeft(StrOrEmpty(r.name), 3) \o " " \o StrOrBlank(r.chain) \o " "
        \o IntOrEmpty(r.resid, 4) \o StrOrBlank(r.insertion)

\* Atom.__str__; self.coords['x'] of coords None is a TypeError.
Atom_str(a) ==
    IF a.coords = None THEN Raise("TypeError")
    ELSE Ok(PadRight(a.record_type, 6)
            \o IntOrEmpty(a.num, 5)
            \o " "
            \o PadRight(StrOrEmpty(a.name), 4)
            \o StrOrBlank(a.alt_location)
            \o Residue_str(ResidueOrEmpty(a.residue))
            \o Spaces(3)
            \o Format3f(NumOrZero(a.coords[1].x), 8)
            \o Format3f(NumOrZero(a.coords[1].y), 8)
            \o Format3f(NumOrZero(a.coords[1].z), 8)
            \o Format2f(NumOrZero(a.occupancy), 6)
            \o Format2f(NumOrZero(a.temp_factor), 6)
            \o Spaces(6)
            \o PadRight(StrOrEmpty(a.segment), 4)
            \o PadLeft(StrOrEmpty(a.symbol), 2)
            \o PadLeft(StrOrEmpty(a.charge), 2))

\* Helix.__str__; '{:>2}'.format(None) is a TypeError.
Helix_str(h) ==
    IF h.helix_type = None THEN Raise("TypeError")
    ELSE Ok(PadRight(h.record_type, 6)
            \o " "
            \o IntOrEmpty(h.helix_num, 3)
            \o " "
            \o PadRight(StrOrEmpty(h.helix_id), 3)
            \o " "
            \o Residue_alt_str(ResidueOrEmpty(h.initial))
            \o " "
            \o Residue_alt_str(ResidueOrEmpty(h.terminal))
            \o PadLeft(IntToStr(h.helix_type[1]), 2)
            \o PadRight(StrOrEmpty(h.comment), 30)
            \o " "
            \o IntOrEmpty(h.length, 5))

\* Sheet.__str__; self.hbond['current'] of hbond None is a TypeError.
Sheet_str(s) ==
    IF s.hbond = None THEN Raise("TypeError")
    ELSE Ok(PadRight(s.record_type, 6)
            \o " "
            \o IntOrEmpty(s.strand_num, 3)
            \o " "
            \o PadLeft(StrOrEmpty(s.sheet_id), 3)
            \o IntOrEmpty(s.num_strands, 2)
            \o " "
            \o Residue_str(ResidueOrEmpty(s.initial))
            \o " "
            \o Residue_str(ResidueOrEmpty(s.terminal))
            \o IntOrEmpty(s.sense, 2)
            \o " "
            \o PadRight(StrOrEmpty(s.hbond[1].current.name), 4)
            \o Residue_str(ResidueOrEmpty(s.hbond[1].current.residue))
            \o " "
            \o PadRight(StrOrEmpty(s.hbond[1].previous.name), 4)
            \o Residue_str(ResidueOrEmpty(s.hbond[1].previous.residue)))

\* Ter.__str__; '{:>5}'.format(None) is a TypeError.
Ter_str(t) ==
    IF t.num = None THEN Raise("TypeError")
    ELSE Ok(PadRight(t.record_type, 6)
            \o PadLeft(IntToStr(t.num[1]), 5)
            \o Residue_str(ResidueOrEmpty(t.residue)))

\* str(r), by the class of r.
PyStr(r) ==
    CASE r.class = "Atom" -> Atom_str(r)
      [] r.class = "Helix" -> Helix_str(r)
      [] r.class = "Sheet" -> Sheet_str(r)
      [] r.class = "Ter" -> Ter_str(r)

---------------------------------------------------------------------------
(* The column parsers. *)

\* read_atom
read_atom(l) ==
    LET num == ParseInt(Slice(l, 6, 11))
        resid == ParseInt(Slice(l, 22, 26))
        x == ParseFloat(Slice(l, 30, 38))
        y == ParseFloat(Slice(l, 38, 46))
        z == ParseFloat(Slice(l, 46, 54))
        occupancy == ParseFloat(Slice(l, 54, 60))
        temp_factor == ParseFloat(Slice(l, 60, 66))
    IN  IF \E r \in {num, resid, x, y, z, occupancy, temp_factor} : IsRaise(r)
        THEN Raise("ValueError")
        ELSE Ok(Atom(Strip(Slice(l, 0, 6)),
                     Some(num.val),
                     Some(Strip(Slice(l, 12, 16))),
                     Some(Strip(Slice(l, 16, 17))),
                     Some(Residue(Some(Strip(Slice(l, 17, 21))),
                                  Some(Strip(Slice(l, 21, 22))),
                                  Some(resid.val),
                                  Some(Strip(Slice(l, 26, 27))))),
                     Some([x |-> Some(x.val), y |-> Some(y.val), z |-> Some(z.val)]),
                     Some(occupancy.val),
                     Some(temp_factor.val),
                     Some(Strip(Slice(l, 72, 76))),
                     Some(Strip(Slice(l, 76, 78))),
                     Some(Strip(Slice(l, 78, 80)))))

\* read_helix
read_helix(l) ==
    LET helix_num == ParseInt(Slice(l, 7, 10))
        resid1 == ParseInt(Slice(l, 21, 25))
        resid2 == ParseInt(Slice(l, 33, 37))
        helix_type == ParseInt(Slice(l, 38, 40))
        length == ParseInt(Slice(l, 71, 76))
    IN  IF \E r \in {helix_num, resid1, resid2, helix_type, length} : IsRaise(r)
        THEN Raise("ValueError")
        ELSE Ok(Helix(Some(helix_num.val),
                      Some(Strip(Slice(l, 11, 14))),
                      Some(Residue(Some(Strip(Slice(l, 15, 19))),
                                   Some(Strip(Slice(l, 19, 20))),
                                   Some(resid1.val),
                                   Some(Strip(Slice(l, 25, 26))))),
                      Some(Residue(Some(Strip(Slice(l, 27, 31))),
                                   Some(Strip(Slice(l, 31, 32))),
                                   Some(resid2.val),
                                   Some(Strip(Slice(l, 37, 38))))),
                      Some(helix_type.val),
                      Some(Strip(Slice(l, 40, 70))),
                      Some(length.val)))

\* read_sheet
read_sheet(l) ==
    LET strand_num == ParseInt(Slice(l, 7, 10))
        num_strands == ParseInt(Slice(l, 14, 16))
        resid1 == ParseInt(Slice(l, 22, 26))
        resid2 == ParseInt(Slice(l, 33, 37))
        sense == ParseInt(Slice(l, 38, 40))
        resid3 == ParseInt(Slice(l, 50, 54))
        resid4 == ParseInt(Slice(l, 65, 69))
    IN  IF \E r \in {strand_num, num_strands, resid1, resid2, sense, resid3, resid4} : IsRaise(r)
        THEN Raise("ValueError")
        ELSE Ok(Sheet(Some(strand_num.val),
                      Some(Strip(Slice(l, 11, 14))),
                      Some(num_strands.val),
                      Some(Residue(Some(Strip(Slice(l, 17, 21))),
                                   Some(Strip(Slice(l, 21, 22))),
                                   Some(resid1.val),
                                   Some(Strip(Slice(l, 26, 27))))),
                      Some(Residue(Some(Strip(Slice(l, 28, 32))),
                                   Some(Strip(Slice(l, 32, 33))),
                                   Some(resid2.val),
                                   Some(Strip(Slice(l, 38, 39))))),
                      Some(sense.val),
                      Some([current |->
                                NamedAtom(Some(Strip(Slice(l, 41, 45))),
                                          Some(Residue(Some(Strip(Slice(l, 45, 49))),
                                                       Some(Strip(Slice(l, 49, 50))),
                                                       Some(resid3.val),
                                                       Some(Strip(Slice(l, 54, 55)))))),
                            previous |->
                                NamedAtom(Some(Strip(Slice(l, 56, 60))),
                                          Some(Residue(Some(Strip(Slice(l, 60, 64))),
                                                       Some(Strip(Slice(l, 64, 65))),
                                                       Some(resid4.val),
                                                       Some(Strip(Slice(l, 69, 70))))))])))

\* read_ter
read_ter(l) ==
    LET num == ParseInt(Slice(l, 5, 11))
        resid == ParseInt(Slice(l, 22, 26))
    IN  IF \E r \in {num, resid} : IsRaise(r)
        THEN Raise("ValueError")
        ELSE Ok(Ter(Some(num.val),
                    Some(Residue(Some(Strip(Slice(l, 17, 21))),
                                 Some(Strip(Slice(l, 21, 22))),
                                 Some(resid.val),
                                 Some(Strip(Slice(l, 26, 27)))))))

\* What a function returning an object or None returns: its outcome with
\* the object wrapped as Some.
Returned(r) == IF IsOk(r) THEN Ok(Some(r.val)) ELSE r

\* read_record with the keywords matched against the line as written, not
\* against line.upper().
read_record_as_written(l) ==
    IF StartsWith(l, "ATOM") \/ StartsWith(l, "HETATM")
    THEN [via |-> "read_atom", res |-> Returned(read_atom(l))]
    ELSE IF StartsWith(l, "TER")
    THEN [via |-> "read_ter", res |-> Returned(read_ter(l))]
    ELSE IF StartsWith(l, "HELIX")
    THEN [via |-> "read_helix", res |-> Returned(read_helix(l))]
    ELSE IF StartsWith(l, "SHEET")
    THEN [via |-> "read_sheet", res |-> Returned(read_sheet(l))]
    ELSE [via |-> "", res |-> Ok(None)]

\* read_record: the parser called ("" when none is) and the outcome.
read_record(l) ==
    LET upper == Upper(l)
    IN  IF StartsWith(upper, "ATOM") \/ StartsWith(upper, "HETATM")
        THEN [via |-> "read_atom", res |-> Returned(read_atom(l))]
        ELSE IF StartsWith(upper, "TER")
        THEN [via |-> "read_ter", res |-> Returned(read_ter(l))]
        ELSE IF StartsWith(upper, "HELIX")
        THEN [via |-> "read_helix", res |-> Returned(read_helix(l))]
        ELSE IF StartsWith(upper, "SHEET")
        THEN [via |-> "read_sheet", res |-> Returned(read_sheet(l))]
        ELSE [via |-> "", res |-> Ok(None)]

\* The default of read_pdb's types, as the code writes it.
AllTypes == <<"ATOM", "HETATM", "TER", "HELIX", "SHEET">>

\* (a or b) of two optional lists: a when it is a non-empty list.
ListOr(a, b) == IF a # None /\ a[1] # <<>> THEN a ELSE b

Range(s) == {s[i] : i \in 1..Len(s)}

\* The records kept by read_pdb's two filters: not None, and of a type in ts.
Kept(rs, ts) ==
    LET keep(r) == r # None /\ r[1].record_type \in Range(ts)
        some == SelectSeq(rs, keep)
    IN  [i \in 1..Len(some) |-> some[i][1]]

\* read_pdb with the lines that fail to parse skipped, the others kept.
read_pdb_skipping(f, ts) ==
    LET used == ListOr(Some(AllTypes), ts)
        outs == [i \in 1..Len(f) |-> read_record(f[i]).res]
        good == SelectSeq(outs, IsOk)
    IN  Ok(Kept([i \in 1..Len(good) |-> good[i].val], used[1]))

\* read_pdb(filename, types), f the lines of the file: read_record on every
\* line, the first exception ending the call.
read_pdb(f, ts) ==
    LET used == ListOr(Some(AllTypes), ts)
        outs == [i \in 1..Len(f) |-> read_record(f[i]).res]
    IN  IF \E i \in 1..Len(f) : IsRaise(outs[i])
        THEN outs[CHOOSE i \in 1..Len(f) : IsRaise(outs[i]) /\ \A j \in 1..(i - 1) : IsOk(outs[j])]
        ELSE Ok(Kept([i \in 1..Len(f) |-> outs[i].val], used[1]))

---------------------------------------------------------------------------
(* The comparison methods. *)

\* Residue.__eq__, __gt__, __lt__ (of integer resids)
Residue_eq(r, o) == r.resid[1] = o.resid[1]

Residue_gt(r, o) == r.resid[1] > o.resid[1]

Residue_lt(r, o) == r.resid[1] < o.resid[1]

\* Atom.__eq__
Atom_eq(a, o) == Residue_eq(a.residue[1], o.residue[1]) /\ a.name = o.name

\* Atom.__gt__ with >= for > on the serial numbers.
Atom_ge(a, o) ==
    Residue_gt(a.residue[1], o.residue[1])
        \/ (Residue_eq(a.residue[1], o.residue[1]) /\ a.num[1] >= o.num[1])

\* Atom.__gt__
Atom_gt(a, o) ==
    Residue_gt(a.residue[1], o.residue[1])
        \/ (Residue_eq(a.residue[1], o.residue[1]) /\ a.num[1] > o.num[1])

\* Atom.__lt__ with the serial number compared first and the residue second.
Atom_lt_serial_first(a, o) ==
    a.num[1] < o.num[1]
        \/ (a.num[1] = o.num[1] /\ Residue_lt(a.residue[1], o.residue[1]))

\* Atom.__lt__
Atom_lt(a, o) ==
    Residue_lt(a.residue[1], o.residue[1])
        \/ (Residue_eq(a.residue[1], o.residue[1]) /\ a.num[1] < o.num[1])

---------------------------------------------------------------------------
(* The inputs: records a caller constructs, lines, files. *)

\* Residues with every field present; 0 and a negative number are residue
\* numbers like any other.
FullResidues ==
    {Residue(Some("ALA"), Some("A"), Some(n), Some("B")) : n \in {0, 12, -3}}

\* Residues with some fields absent.
SparseResidues ==
    {EmptyResidue,
     Residue(Some("ALA"), None, None, None),
     Residue(None, Some("A"), None, Some("B")),
     Residue(None, None, Some(12), None)}

Coords(x, y, z) == [x |-> Some(x), y |-> Some(y), z |-> Some(z)]

\* Atoms with every field present and within its column.
FullAtoms ==
    {Atom(t, Some(n), Some(nm), Some("A"), Some(r), Some(Coords(x, -13207, 9617)),
          Some(o), Some(20000), Some(sg), Some("N"), Some("1+")) :
        t \in {"ATOM", "HETATM"}, n \in {0, 1, 99999, -7}, nm \in {"N", "HD11"},
        r \in FullResidues, x \in {0, 11104, -999999}, o \in {0, 1000},
        sg \in {"S", "SEG1"}}

OneOrNone(v) == {None, Some(v)}

\* Atoms with any of their fields absent.
SparseAtoms ==
    {Atom("ATOM", n, nm, al, r, c, o, tf, sg, sy, ch) :
        n \in OneOrNone(1), nm \in OneOrNone("CA"), al \in OneOrNone("A"),
        r \in {None, Some(EmptyResidue), Some(Residue(None, None, Some(12), None))},
        c \in {None, Some([x |-> None, y |-> None, z |-> None]), Some(Coords(11104, 0, -1))},
        o \in OneOrNone(1000), tf \in OneOrNone(20000), sg \in OneOrNone("SEG1"),
        sy \in OneOrNone("C"), ch \in OneOrNone("1+")}

\* Ters with every field present and within its column.
FullTers == {Ter(Some(n), Some(r)) : n \in {0, 1, 99999}, r \in FullResidues}

\* Ters with any of their fields absent.
SparseTers ==
    {Ter(n, r) : n \in OneOrNone(1), r \in {None} \cup {Some(x) : x \in SparseResidues}}

\* Helices, with any of their fields absent or all present.
Helices ==
    {Helix(n, id, i, t, ty, c, len) :
        n \in OneOrNone(1), id \in OneOrNone("HA"),
        i \in {None} \cup {Some(x) : x \in SparseResidues \cup FullResidues},
        t \in {None, Some(Residue(Some("GLY"), Some("A"), Some(94), Some("C")))},
        ty \in OneOrNone(1), c \in OneOrNone("RIGHT-HANDED ALPHA"),
        len \in OneOrNone(9)}

HBond(r1, r2) ==
    [current |-> NamedAtom(Some("N"), Some(r1)), previous |-> NamedAtom(Some("O"), Some(r2))]

\* Sheets with every field present and within its column.
FullSheets ==
    {Sheet(Some(n), Some("A"), Some(5), Some(i), Some(t), Some(se), Some(HBond(r1, r2))) :
        n \in {1, 12}, i \in FullResidues,
        t \in {Residue(Some("THR"), Some("A"), Some(99), Some(c)) : c \in {"C", "-"}},
        se \in {-1, 0, 1},
        r1 \in {Residue(Some("LYS"), Some("A"), Some(98), Some("D"))},
        r2 \in FullResidues}

\* Sheets with any of their fields absent.
SparseSheets ==
    {Sheet(n, id, ns, i, t, se, h) :
        n \in OneOrNone(1), id \in OneOrNone("A"), ns \in OneOrNone(5),
        i \in {None} \cup {Some(x) : x \in SparseResidues},
        t \in {None, Some(Residue(Some("THR"), Some("A"), Some(99), Some("C")))},
        se \in OneOrNone(-1),
        h \in {None,
               Some([current |-> NamedAtom(None, None), previous |-> NamedAtom(None, None)]),
               Some(HBond(EmptyResidue, Residue(Some("THR"), Some("A"), Some(107), Some("E"))))}}

\* The records a caller constructs.
Records == FullAtoms \cup SparseAtoms \cup FullTers \cup SparseTers \cup Helices
              \cup FullSheets \cup SparseSheets

\* The columns after the keyword of a well-formed ATOM line.
AtomTail == "    1  N   ALA A   1      11.104  13.207   9.617  1.00 20.00           N  \n"

AtomLine == "ATOM  " \o AtomTail

LowerAtomLine == "atom  " \o AtomTail

MixedHetatmLine == "Hetatm" \o AtomTail

\* An ATOM line whose residue number is not a number.
BadResidLine == "ATOM      1  N   ALA A   X      11.104  13.207   9.617  1.00 20.00           N"

BadResidFileLine == BadResidLine \o "\n"

\* AtomLine cut inside its temperature factor, of which " 2" is left.
CutAtomLine == Slice(AtomLine, 0, 62) \o "\n"

\* AtomLine cut inside its residue number, of which blanks are left.
ShortAtomLine == Slice(AtomLine, 0, 24)

BareAtomLine == "ATOM\n"

TerLine == "TER       2      ALA A   1 \n"

BareTerLine == "TER\n"

BadTerLine == "ter     two      ALA A   1 \n"

HelixLine == "HELIX    1  HA GLY A   86  GLY A   94  1                                   9\n"

BadHelixLine == "helix    1  HA GLY A   86  GLY A   94  1                                    \n"

SheetLine == "SHEET    2   A 5 ILE A  96  THR A  99 -1  N  LYS A  98   O  THR A 107 \n"

\* The first strand of a sheet: no bonded atoms are written.
FirstStrandLine == "SHEET    1   A 5 THR A 107  ARG A 115  0\n"

RemarkLine == "REMARK  this is a comment"

RemarkFileLine == RemarkLine \o "\n"

EmptyLine == ""

BlankFileLine == "\n"

EndLine == "END\n"

IndentedAtomLine == " " \o AtomLine

\* The lines handed to read_record.
Lines ==
    {AtomLine, LowerAtomLine, MixedHetatmLine, BadResidLine, CutAtomLine,
     ShortAtomLine, BareAtomLine, TerLine, BareTerLine, BadTerLine, HelixLine,
     BadHelixLine, SheetLine, FirstStrandLine, RemarkLine, EmptyLine, EndLine,
     IndentedAtomLine}

\* The lines the files handed to read_pdb are made of, each with the
\* newline that ends it.
FileLines ==
    {AtomLine, LowerAtomLine, BadResidFileLine, CutAtomLine, TerLine, BadHelixLine,
     HelixLine, SheetLine, RemarkFileLine, BlankFileLine}

RECURSIVE SeqsUpTo(_, _)
\* The sequences over S of length at most n.
SeqsUpTo(S, n) ==
    IF n = 0 THEN {<<>>}
    ELSE LET shorter == SeqsUpTo(S, n - 1)
         IN  shorter \cup {Append(f, x) : f \in shorter, x \in S}

Files == SeqsUpTo(FileLines, MaxFileLen)

\* The types arguments read_pdb is called with; None is the default.
TypesArgs ==
    {None, Some(<<>>), Some(<<"TER">>), Some(<<"ATOM", "HETATM">>),
     Some(<<"HELIX", "SHEET">>), Some(AllTypes)}

\* The Atoms compared: integer resid and num, any name and chain.
ComparedAtoms ==
    {Atom("ATOM", Some(n), Some(nm), None, Some(Residue(Some("ALA"), Some(c), Some(r), None)),
          None, None, None, None, None, None) :
        n \in 0..MaxNum, nm \in {"N", "CA"}, c \in {"A", "B"}, r \in -1..MaxResid}

---------------------------------------------------------------------------
(* The state machine: one use of the module by a caller, who constructs a   *)
(* record and formats it and parses the line back, or parses a line, or    *)
(* reads a file, or compares two Atoms.                                    *)

Init ==
    /\ op = "init"
    /\ rec = None
    /\ line = Idle
    /\ back = Idle
    /\ via = ""
    /\ file = <<>>
    /\ types = None
    /\ loaded = Idle
    /\ cmp = Idle

\* The caller constructs the record r.
Construct ==
    /\ op = "init"
    /\ \E r \in Records :
        /\ op' = "construct"
        /\ rec' = Some(r)
        /\ line' = Idle
        /\ back' = Idle
        /\ via' = ""
        /\ file' = <<>>
        /\ types' = None
        /\ loaded' = Idle
        /\ cmp' = Idle

\* str(rec)
Str ==
    /\ op = "construct"
    /\ op' = "str"
    /\ line' = PyStr(rec[1])
    /\ UNCHANGED <<rec, back, via, file, types, loaded, cmp>>

\* The caller has the line l of some file.
Feed ==
    /\ op = "init"
    /\ \E l \in Lines :
        /\ op' = "line"
        /\ rec' = None
        /\ line' = Ok(l)
        /\ back' = Idle
        /\ via' = ""
        /\ file' = <<>>
        /\ types' = None
        /\ loaded' = Idle
        /\ cmp' = Idle

\* read_record(line), of a line fed or of the line str(rec) returned.
ReadRecord ==
    /\ op \in {"str", "line"}
    /\ IsOk(line)
    /\ op' = "read_record"
    /\ LET out == read_record(line.val)
       IN  back' = out.res /\ via' = out.via
    /\ UNCHANGED <<rec, line, file, types, loaded, cmp>>

\* read_pdb(filename, types), f the lines of the file.
ReadPdb ==
    /\ op = "init"
    /\ \E f \in Files, ts \in TypesArgs :
        /\ op' = "read_pdb"
        /\ rec' = None
        /\ line' = Idle
        /\ back' = Idle
        /\ via' = ""
        /\ file' = f
        /\ types' = ts
        /\ loaded' = read_pdb(f, ts)
        /\ cmp' = Idle

\* a == b, a < b and a > b of two Atoms.
Compare ==
    /\ op = "init"
    /\ \E a \in ComparedAtoms, b \in ComparedAtoms :
        /\ op' = "compare"
        /\ rec' = None
        /\ line' = Idle
        /\ back' = Idle
        /\ via' = ""
        /\ file' = <<>>
        /\ types' = None
        /\ loaded' = Idle
        /\ cmp' = [a |-> a, b |-> b, eq |-> Atom_eq(a, b), lt |-> Atom_lt(a, b), gt |-> Atom_gt(a, b)]

Next ==
    \/ Construct
    \/ Str
    \/ Feed
    \/ ReadRecord
    \/ ReadPdb
    \/ Compare

Spec == Init /\ [][Next]_vars

---------------------------------------------------------------------------
(* The claims. *)

\* The supported keywords, in the dispatcher's order.
Keywords == <<"ATOM", "HETATM", "TER", "HELIX", "SHEET">>

\* The first keyword that is a prefix of the upper-cased line, or "".
KeywordOf(l) ==
    LET upper == Upper(l)
        hits == {i \in 1..Len(Keywords) : StartsWith(upper, Keywords[i])}
    IN  IF hits = {} THEN ""
        ELSE Keywords[CHOOSE i \in hits : \A j \in hits : i <= j]

Recognized(l) == KeywordOf(l) # ""

\* The parser of a keyword.
ParserOf(kw) ==
    CASE kw \in {"ATOM", "HETATM"} -> "read_atom"
      [] kw = "TER" -> "read_ter"
      [] kw = "HELIX" -> "read_helix"
      [] kw = "SHEET" -> "read_sheet"

RunParser(p, l) ==
    CASE p = "read_atom" -> read_atom(l)
      [] p = "read_ter" -> read_ter(l)
      [] p = "read_helix" -> read_helix(l)
      [] p = "read_sheet" -> read_sheet(l)

\* The numeric columns of a line of keyword kw: <<first, end, "int" or "float">>.
NumericColumns(kw) ==
    CASE kw \in {"ATOM", "HETATM"} ->
            {<<6, 11, "int">>, <<22, 26, "int">>, <<30, 38, "float">>, <<38, 46, "float">>,
             <<46, 54, "float">>, <<54, 60, "float">>, <<60, 66, "float">>}
      [] kw = "TER" -> {<<5, 11, "int">>, <<22, 26, "int">>}
      [] kw = "HELIX" ->
            {<<7, 10, "int">>, <<21, 25, "int">>, <<33, 37, "int">>, <<38, 40, "int">>,
             <<71, 76, "int">>}
      [] kw = "SHEET" ->
            {<<7, 10, "int">>, <<14, 16, "int">>, <<22, 26, "int">>, <<33, 37, "int">>,
             <<38, 40, "int">>, <<50, 54, "int">>, <<65, 69, "int">>}

\* The column slice is, once stripped, no number (blank and empty included).
NotANumber(l, c) ==
    IsRaise(IF c[3] = "int" THEN ParseInt(Slice(l, c[1], c[2])) ELSE ParseFloat(Slice(l, c[1], c[2])))

\* The line ends before the column does.
CutShort(l, c) == Len(l) < c[2]

\* A line of a supported keyword with a numeric column that is no number.
Malformed(l) ==
    Recognized(l) /\ \E c \in NumericColumns(KeywordOf(l)) : NotANumber(l, c)

\* A line of a supported keyword with a numeric column that is no number or
\* that the line ends in.
MalformedOrShort(l) ==
    Recognized(l) /\ \E c \in NumericColumns(KeywordOf(l)) : NotANumber(l, c) \/ CutShort(l, c)

\* The records read_record yields for the lines of f, in order, the lines
\* yielding None left out.
Yielded(f) ==
    LET outs == [i \in 1..Len(f) |-> read_record(f[i]).res.val]
        some == SelectSeq(outs, LAMBDA o : o # None)
    IN  [i \in 1..Len(some) |-> some[i][1]]

\* The length of the line str() writes for a record of a class: the sum of
\* the widths of its columns.
Width(class) ==
    CASE class = "Atom" -> 80
      [] class = "Helix" -> 76
      [] class = "Sheet" -> 70
      [] class = "Ter" -> 21

\* C1: read_pdb called with an explicit list of record kinds returns only
\* records whose record_type is in that list.
C1_TypesFilter ==
    (op = "read_pdb" /\ types # None /\ IsOk(loaded))
        => \A i \in 1..Len(loaded.val) : loaded.val[i].record_type \in Range(types[1])

\* C2: read_pdb with the default kinds returns exactly one record for every
\* line for which read_record yields a record, lower- and mixed-case keywords
\* included, in the order of the lines.
C2_DefaultKeepsEveryRecord ==
    (op = "read_pdb" /\ types = None /\ \A i \in 1..Len(file) : IsOk(read_record(file[i]).res))
        => loaded = Ok(Yielded(file))

C4_AtomRoundTrip ==
    (op = "read_record" /\ rec # None /\ rec[1] \in FullAtoms) => back = Ok(rec)

\* C5: a Ter with every field present and within its column is read back
\* from str() with num and residue equal.
C5_TerRoundTrip ==
    (op = "read_record" /\ rec # None /\ rec[1] \in FullTers) => back = Ok(rec)

\* C6: a Sheet with every field present and within its column is read back
\* from str() with every field equal.
C6_SheetRoundTrip ==
    (op = "read_record" /\ rec # None /\ rec[1] \in FullSheets) => back = Ok(rec)

\* C7: str() of a record succeeds and returns a line of the one length of
\* its kind, whichever optional fields are absent.
C7_ColumnStability ==
    op = "str" => IsOk(line) /\ Len(line.val) = Width(rec[1].class)

\* C8: read_record calls exactly the parser of the first keyword that is a
\* prefix of the upper-cased line and returns what it returns; a line with
\* no such prefix yields None and no error.
C8_Routing ==
    op = "read_record"
        => LET kw == KeywordOf(line.val)
           IN  IF kw = "" THEN via = "" /\ back = Ok(None)
               ELSE via = ParserOf(kw) /\ back = Returned(RunParser(ParserOf(kw), line.val))

\* C8's case: a line with a lower-case keyword has been routed to its parser.
C8_Witness ==
    /\ op = "read_record"
    /\ line = Ok(LowerAtomLine)
    /\ via = "read_atom"
    /\ IsOk(back)

\* C9: of two Atoms with equal resid, a < b exactly when a.num < b.num; with
\* different resids, a < b exactly when a's resid is the smaller, whatever
\* the serial numbers, names and chains; a > b is the mirror image.
C9_AtomOrdering ==
    op = "compare"
        => LET ra == cmp.a.residue[1].resid[1]
               rb == cmp.b.residue[1].resid[1]
               na == cmp.a.num[1]
               nb == cmp.b.num[1]
           IN  /\ ra = rb => (cmp.lt <=> na < nb) /\ (cmp.gt <=> na > nb)
               /\ ra # rb => (cmp.lt <=> ra < rb) /\ (cmp.gt <=> ra > rb)

\* C9's case: the residue decides against the serial numbers.
C9_Witness ==
    /\ op = "compare"
    /\ cmp.a.residue[1].resid[1] < cmp.b.residue[1].resid[1]
    /\ cmp.a.num[1] > cmp.b.num[1]
    /\ cmp.a.residue[1].chain # cmp.b.residue[1].chain
    /\ cmp.lt
    /\ ~cmp.gt

\* C10, as claimed: of two Atoms exactly one of a < b, a == b, a > b holds.
C10_EqualityTrichotomy ==
    op = "compare"
        => \/ cmp.lt /\ ~cmp.eq /\ ~cmp.gt
           \/ ~cmp.lt /\ cmp.eq /\ ~cmp.gt
           \/ ~cmp.lt /\ ~cmp.eq /\ cmp.gt

\* C10, amended: of two Atoms exactly one of a < b, a > b and "same resid
\* and same num" holds; a == b (same resid and same name) is not the third
\* case.
C10_SerialTrichotomy ==
    op = "compare"
        => LET same == /\ cmp.a.residue[1].resid[1] = cmp.b.residue[1].resid[1]
                       /\ cmp.a.num[1] = cmp.b.num[1]
           IN  \/ cmp.lt /\ ~same /\ ~cmp.gt
               \/ ~cmp.lt /\ same /\ ~cmp.gt
               \/ ~cmp.lt /\ ~same /\ cmp.gt

\* C10's case: two Atoms that are equal (same resid, same name) and yet
\* ordered by their serial numbers.
C10_Witness ==
    /\ op = "compare"
    /\ cmp.eq
    /\ cmp.lt

=============================================================================
